---- MODULE Spec2Model ----
(***************************************************************************)
(* A model of morph::ShapeAnalysis (src/src/ShapeAnalysis.h): contour      *)
(* extraction, winner-take-all region labelling, Dirichlet vertex          *)
(* detection, edge walking and domain closure on a hexagonal grid.         *)
(*                                                                         *)
(* Units.  Hex centres and hex corners are held as exact integer pairs:    *)
(* x in units of the short radius SR = d/2, y in units of the vertical     *)
(* offset VtoNE = LR/2 = d/(2 sqrt 3).  On the lattice two coordinates     *)
(* that agree "within tolerance" are equal integer pairs.  Identities are  *)
(* held in units of 1/N (the label i/N is the integer i); the grid-edge    *)
(* sentinel -1.0f is the integer -1.                                       *)
(***************************************************************************)
EXTENDS Integers, Sequences, FiniteSets, TLC

(***************************************************************************)
(* Bounds of the model.                                                    *)
(***************************************************************************)
\* The grid is a hexagon of hexes with this many rings around the centre.
GridRadius == 2
\* Number of scalar fields N of the winner-take-all labelling (identities 0..N-1).
NumIds == 3
\* Field values of the scalar fields are drawn from 0..MaxVal.
MaxVal == 2
\* A walk is followed until its path holds this many coordinates.
MaxPath == 12

\* numeric_limits<Flt>::max(), the "unset" coordinate / identity.
FLT_MAX == 1000000
\* numeric_limits<int>::max(), the "unset" direction.
INT_MAX == 999
\* The domain-count cap in the loop condition of dirichlet_vertices.
DomCap == 3

(***************************************************************************)
(* HexGrid: a 6-connected lattice of hexes.  Directions: 0=E 1=NE 2=NW 3=W *)
(* 4=SW 5=SE.  Corner d lies between neighbour d and neighbour d+1.        *)
(***************************************************************************)
Dirs == 0..5

Abs(n) == IF n < 0 THEN -n ELSE n

\* (ri, gi) positions of the hexes of the grid.
HexPos ==
    { p \in (-GridRadius..GridRadius) \X (-GridRadius..GridRadius) :
        Abs(p[1] + p[2]) <= GridRadius }

\* p comes before q in the iteration order of hg->hexen (row by row).
PosBefore(p, q) == p[2] < q[2] \/ (p[2] = q[2] /\ p[1] < q[1])

\* hg->num()
nhex == Cardinality(HexPos)

\* The hexes are addressed by their vector index vi = 0..nhex-1.
Hexes == 0..(nhex - 1)

\* The explicit table 0..n |-> F(k).
RECURSIVE Table(_, _)
Table(F(_), n) == IF n < 0 THEN << >> ELSE Table(F, n - 1) @@ (n :> F(n))

\* The position of the hex with vector index i.
PosOf(i) == CHOOSE p \in HexPos : Cardinality({ q \in HexPos : PosBefore(q, p) }) = i

\* hexen: vi |-> (ri, gi), in iteration order.
hexen == Table(PosOf, nhex - 1)

\* Step in (ri, gi) to the neighbour in direction d.
NbrStep(d) ==
    CASE d = 0 -> <<1, 0>>
      [] d = 1 -> <<0, 1>>
      [] d = 2 -> <<-1, 1>>
      [] d = 3 -> <<-1, 0>>
      [] d = 4 -> <<0, -1>>
      [] d = 5 -> <<1, -1>>

\* vi of the neighbour of hex k in direction d, -1 for none.
NbrOf(k, d) ==
    LET q == << hexen[k][1] + NbrStep(d)[1], hexen[k][2] + NbrStep(d)[2] >>
    IN  IF q \in HexPos THEN CHOOSE n \in Hexes : hexen[n] = q ELSE -1

NbrRow(k) ==
    (0 :> NbrOf(k, 0)) @@ (1 :> NbrOf(k, 1)) @@ (2 :> NbrOf(k, 2))
    @@ (3 :> NbrOf(k, 3)) @@ (4 :> NbrOf(k, 4)) @@ (5 :> NbrOf(k, 5))

\* Neighbour table (as HexGrid's d_ne .. d_nse).
NbrTab == Table(NbrRow, nhex - 1)

\* hg: the HexGrid every function of ShapeAnalysis is handed; it never changes.
VARIABLE hg

\* Hex::has_neighbour: any direction outside 0..5 has no neighbour.
has_neighbour(h, d) == d \in Dirs /\ hg.nbr[h][d] # -1

\* Hex::get_neighbour
get_neighbour(h, d) == hg.nbr[h][d]

\* Hex::onBoundary: some neighbour is missing.
onBoundary(h) == \E d \in Dirs : ~has_neighbour(h, d)

\* Hex::boundaryHex: the hex sits on the outer edge of the grid.
boundaryHex(h) == onBoundary(h)

\* Hex centre (x, y) of hex k.
CentreOf(k) == << 2 * hexen[k][1] + hexen[k][2], 3 * hexen[k][2] >>

HexXY == Table(CentreOf, nhex - 1)

\* The grid: the neighbour table and the centres of its hexes.
HexGrid == [ nbr |-> NbrTab, xy |-> HexXY ]

\* Offset from a hex centre to its corner d (NE, N, NW, SW, S, SE).
VtxStep(d) ==
    CASE d = 0 -> <<1, 1>>
      [] d = 1 -> <<0, 2>>
      [] d = 2 -> <<-1, 1>>
      [] d = 3 -> <<-1, -1>>
      [] d = 4 -> <<0, -2>>
      [] d = 5 -> <<1, -1>>

\* Hex::get_vertex_coord
get_vertex_coord(h, d) ==
    << hg.xy[h][1] + VtxStep(d)[1], hg.xy[h][2] + VtxStep(d)[2] >>

\* Hex::compare_vertex_coord
compare_vertex_coord(h, d, c) == get_vertex_coord(h, d) = c

\* Hex::compare_coord
compare_coord(h, c) == hg.xy[h] = c

\* (i+1)%6 and i>0?i-1:5
Succ6(i) == (i + 1) % 6
Pred6(i) == IF i > 0 THEN i - 1 ELSE 5

(***************************************************************************)
(* DirichVtx                                                               *)
(***************************************************************************)
UnsetCoord == << FLT_MAX, FLT_MAX >>

\* DirichVtx(v, d, f, neighb, hi)
DirichVtx(c, id, nb, h) ==
    [ v |-> c, f |-> id, neighb |-> nb, hi |-> h,
      onBoundary |-> FALSE, closed |-> FALSE, pathto_next |-> << >> ]

\* DirichVtx(): the default-constructed vertex
DirichVtxUnset ==
    [ v |-> UnsetCoord, f |-> FLT_MAX, neighb |-> << FLT_MAX, FLT_MAX >>, hi |-> -1,
      onBoundary |-> FALSE, closed |-> FALSE, pathto_next |-> << >> ]

\* DirichVtx::unset
unset(vtx) == vtx.v = UnsetCoord

\* DirichVtx::compare
compare(vtx, c) == vtx.v = c

(***************************************************************************)
(* vertex_test: the Dirichlet vertices of one hex h for the identities f.  *)
(***************************************************************************)
\* n_ids: the distinct identities among h and its existing neighbours.
n_ids(f, h) ==
    {f[h]} \cup { f[get_neighbour(h, ni)] : ni \in { d \in Dirs : has_neighbour(h, d) } }

\* A part 1 that puts the vertex at corner ni in both of its cases.
vertex_test_bh_corner_ni(f, h, ni) ==
    IF has_neighbour(h, ni) /\ f[get_neighbour(h, ni)] # f[h]
    THEN IF ~has_neighbour(h, Succ6(ni))
         THEN << [ DirichVtx(get_vertex_coord(h, ni), f[h],
                             << -1, f[get_neighbour(h, ni)] >>, h)
                   EXCEPT !.onBoundary = TRUE ] >>
         ELSE IF ~has_neighbour(h, Pred6(ni))
              THEN << [ DirichVtx(get_vertex_coord(h, ni), f[h],
                                  << f[get_neighbour(h, ni)], -1 >>, h)
                        EXCEPT !.onBoundary = TRUE ] >>
              ELSE << >>
    ELSE << >>

\* Part 1 (boundary hexes), one pass of the loop over ni.
vertex_test_bh(f, h, ni) ==
    IF has_neighbour(h, ni) /\ f[get_neighbour(h, ni)] # f[h]
    THEN IF ~has_neighbour(h, Succ6(ni))
         THEN << [ DirichVtx(get_vertex_coord(h, ni), f[h],
                             << -1, f[get_neighbour(h, ni)] >>, h)
                   EXCEPT !.onBoundary = TRUE ] >>
         ELSE IF ~has_neighbour(h, Pred6(ni))
              THEN << [ DirichVtx(get_vertex_coord(h, Pred6(ni)), f[h],
                                  << f[get_neighbour(h, ni)], -1 >>, h)
                        EXCEPT !.onBoundary = TRUE ] >>
              ELSE << >>
    ELSE << >>

\* A part 2 that does not compare the two neighbours with each other.
vertex_test_ih_two_ids(f, h, ni) ==
    IF has_neighbour(h, ni) /\ f[get_neighbour(h, ni)] # f[h]
    THEN IF has_neighbour(h, Succ6(ni)) /\ f[get_neighbour(h, Succ6(ni))] # f[h]
         THEN << DirichVtx(get_vertex_coord(h, ni), f[h],
                           << f[get_neighbour(h, Succ6(ni))], f[get_neighbour(h, ni)] >>, h) >>
         ELSE << >>
    ELSE << >>

\* A part 2 that records the neighbour pair in the order (identity at ni, identity at ni+1).
vertex_test_ih_swapped(f, h, ni) ==
    IF has_neighbour(h, ni) /\ f[get_neighbour(h, ni)] # f[h]
    THEN IF /\ has_neighbour(h, Succ6(ni))
            /\ f[get_neighbour(h, Succ6(ni))] # f[h]
            /\ f[get_neighbour(h, Succ6(ni))] # f[get_neighbour(h, ni)]
         THEN << DirichVtx(get_vertex_coord(h, ni), f[h],
                           << f[get_neighbour(h, ni)], f[get_neighbour(h, Succ6(ni))] >>, h) >>
         ELSE << >>
    ELSE << >>

\* Part 2 (vertices with three identities), one pass of the loop over ni.
vertex_test_ih(f, h, ni) ==
    IF has_neighbour(h, ni) /\ f[get_neighbour(h, ni)] # f[h]
    THEN LET f1  == f[get_neighbour(h, ni)]
             nii == Succ6(ni)
         IN  IF /\ has_neighbour(h, nii)
                /\ f[get_neighbour(h, nii)] # f[h]
                /\ f[get_neighbour(h, nii)] # f1
             THEN << DirichVtx(get_vertex_coord(h, ni), f[h],
                               << f[get_neighbour(h, nii)], f[get_neighbour(h, ni)] >>, h) >>
             ELSE << >>
    ELSE << >>

RECURSIVE vertex_test_bh_from(_, _, _)
\* Lines 165-208: the passes ni, ni+1, .. of the loop of part 1.
vertex_test_bh_from(f, h, ni) ==
    IF ni = 6 THEN << >> ELSE vertex_test_bh(f, h, ni) \o vertex_test_bh_from(f, h, ni + 1)

RECURSIVE vertex_test_ih_from(_, _, _)
\* Lines 213-239: the passes ni, ni+1, .. of the loop of part 2.
vertex_test_ih_from(f, h, ni) ==
    IF ni = 6 THEN << >> ELSE vertex_test_ih(f, h, ni) \o vertex_test_ih_from(f, h, ni + 1)

\* The vertices vertex_test appends for hex h, in the order it appends them.
vertex_test(f, h) ==
    IF \/ (boundaryHex(h) /\ Cardinality(n_ids(f, h)) >= 2)
       \/ (~boundaryHex(h) /\ Cardinality(n_ids(f, h)) >= 3)
    THEN (IF boundaryHex(h) THEN vertex_test_bh_from(f, h, 0) ELSE << >>)
         \o vertex_test_ih_from(f, h, 0)
    ELSE << >>

(***************************************************************************)
(* The identity fields the analysis is run on.  The centre hex and its six *)
(* neighbours carry any identities; the remaining hexes follow one of the  *)
(* background patterns.                                                    *)
(***************************************************************************)
Ids == 0..(NumIds - 1)

\* vi of the hex at (ri, gi)
HexAt(p) == CHOOSE k \in Hexes : hexen[k] = p

Centre == HexAt(<<0, 0>>)

\* The centre hex and its six neighbours.
Cluster == {Centre} \cup { get_neighbour(Centre, d) : d \in Dirs }

\* The six neighbours of the centre hex.
Ring == Cluster \ {Centre}

\* The neighbours of the centre hex whose identity is free (directions E .. SW).
FreeRing == { get_neighbour(Centre, d) : d \in 0..4 }

Backgrounds == {"flat", "tri", "split"}

\* The identity of hex k where it is not free.
Background(bg, k) ==
    CASE bg = "flat"  -> 1
      [] bg = "tri"   -> (hexen[k][1] - hexen[k][2] + 3 * GridRadius) % NumIds
      [] bg = "split" -> IF HexXY[k][1] < 0 \/ (HexXY[k][1] = 0 /\ HexXY[k][2] > 0)
                         THEN 1 ELSE 2

\* The centre hex has identity 0, its free neighbours any identity.
FieldSet ==
    { [ k \in Hexes |-> IF k = Centre THEN 0
                        ELSE IF k \in FreeRing THEN c[k] ELSE Background(bg, k) ] :
        c \in [FreeRing -> Ids], bg \in Backgrounds }

\* Three bands: the centre hex, the hexes to its left and the hexes to its right.
BandField ==
    [ k \in Hexes |-> IF k = Centre THEN 0 ELSE Background("split", k) ]

(***************************************************************************)
(* get_contours.  A normalized value is the pair << num, den >> standing   *)
(* for num/den; den = 0 stands for the floating point results of a         *)
(* division by zero: +inf (num > 0), -inf (num < 0), NaN (num = 0).        *)
(***************************************************************************)
RECURSIVE NormalizeRow(_, _, _, _)
RECURSIVE NormalizeFrom(_, _, _, _)

\* The hexes that are not onBoundary().
InnerHexes == { k \in Hexes : ~onBoundary(k) }

\* Lines 61-62: the initial maxf (-1e7) and minf (+1e7), in the units of the field values.
MaxFInit == -10000000
MinFInit == 10000000

\* The values of the fields on the hexes that are not on the boundary.
InnerValues(flds) == { flds[i][k] : i \in 1..Len(flds), k \in InnerHexes }

\* A maxf taken from the first field alone.
MaxF_first_field(flds) ==
    CHOOSE m \in { flds[1][k] : k \in InnerHexes } \cup {MaxFInit} :
        \A x \in { flds[1][k] : k \in InnerHexes } \cup {MaxFInit} : x <= m

\* Lines 61-70: maxf and minf, taken over the hexes that are not on the boundary.
MaxF(flds) ==
    CHOOSE m \in InnerValues(flds) \cup {MaxFInit} :
        \A x \in InnerValues(flds) \cup {MaxFInit} : x <= m

MinF(flds) ==
    CHOOSE m \in InnerValues(flds) \cup {MinFInit} :
        \A x \in InnerValues(flds) \cup {MinFInit} : x >= m

\* Lines 71-84: norm_f[i][h] = (f[i][h] - minf) * (1.0 / (maxf - minf))
NormalizeRow(fld, mn, mx, k) ==
    IF k < 0 THEN << >> ELSE NormalizeRow(fld, mn, mx, k - 1) @@ (k :> << fld[k] - mn, mx - mn >>)

NormalizeFrom(flds, mn, mx, i) ==
    IF i = 0 THEN << >>
    ELSE Append(NormalizeFrom(flds, mn, mx, i - 1), NormalizeRow(flds[i], mn, mx, nhex - 1))

Normalize(flds, mn, mx) == NormalizeFrom(flds, mn, mx, Len(flds))

\* a > t and a < t for a normalized value a and a threshold t = << tn, td >>, td > 0.
Gt(a, t) == IF a[2] = 0 THEN a[1] > 0 ELSE a[1] * t[2] > t[1] * a[2]
Lt(a, t) == IF a[2] = 0 THEN a[1] < 0 ELSE a[1] * t[2] < t[1] * a[2]

\* A membership test that ignores the neighbours of a hex.
ContourMember_no_neighbours(nf, t, i, k) == Gt(nf[i][k], t)

\* Lines 89-104: is hex k a member of the contour of field i?
ContourMember(nf, t, i, k) ==
    IF ~onBoundary(k)
    THEN /\ Gt(nf[i][k], t)
         /\ \E d \in Dirs : has_neighbour(k, d) /\ Lt(nf[i][get_neighbour(k, d)], t)
    ELSE Gt(nf[i][k], t)

RECURSIVE Collate(_, _, _, _)
\* Lines 87-106: the members of the contour of field i among the hexes k, k+1, ..
Collate(nf, t, i, k) ==
    IF k = nhex THEN << >>
    ELSE (IF ContourMember(nf, t, i, k) THEN << k >> ELSE << >>) \o Collate(nf, t, i, k + 1)

\* get_contours: one list of hexes per field, from the normalized fields nf.
get_contours(nf, t) == [ i \in 1..Len(nf) |-> Collate(nf, t, i, 0) ]

(***************************************************************************)
(* dirichlet_regions                                                       *)
(***************************************************************************)
\* -1e7, the initial maxf of dirichlet_regions, in the units of the field values.
RegionFloor == -10000000

RECURSIVE RegionLoop(_, _, _, _, _)
RECURSIVE RegionLoop_ge(_, _, _, _, _)
\* The loop with >= in place of >.
RegionLoop_ge(flds, k, i, maxf, rtn) ==
    IF i = Len(flds) THEN rtn
    ELSE IF flds[i + 1][k] >= maxf
         THEN RegionLoop_ge(flds, k, i + 1, flds[i + 1][k], i)
         ELSE RegionLoop_ge(flds, k, i + 1, maxf, rtn)

\* Lines 126-134: the loop over the fields i, i+1, .. for hex k (field i is flds[i+1]).
RegionLoop(flds, k, i, maxf, rtn) ==
    IF i = Len(flds) THEN rtn
    ELSE IF flds[i + 1][k] > maxf
         THEN RegionLoop(flds, k, i + 1, flds[i + 1][k], i)
         ELSE RegionLoop(flds, k, i + 1, maxf, rtn)

\* dirichlet_regions: the identity of every hex, in units of 1/N.
dirichlet_regions(flds) ==
    [ k \in Hexes |-> RegionLoop(flds, k, 0, RegionFloor, 0) ]

(***************************************************************************)
(* The scalar fields the contours and regions are computed from.           *)
(***************************************************************************)
Vals == 0..MaxVal

\* The hexes whose value in the first field is free: the centre, and the last hex of
\* the centre row, which is on the boundary.
FreeHexes == { Centre, HexAt(<< GridRadius, 0 >>) }

\* The flat parts of the N fields: values of the usual size, or at and below -1e7.
Bases == [1..NumIds -> Vals] \cup [1..NumIds -> { RegionFloor - 1, RegionFloor }]

\* N fields: the first flat but for the free hexes, the others flat.
FieldsSet ==
    { [ i \in 1..NumIds |->
          [ k \in Hexes |-> IF i = 1
                            THEN (IF k \in FreeHexes THEN fr[k] ELSE base[1])
                            ELSE base[i] ] ] :
        fr \in [FreeHexes -> Vals], base \in Bases }

\* Thresholds in [0,1]: 0, 1/2 and 1.
Thresholds == { <<0, 1>>, <<1, 2>>, <<1, 1>> }

\* Two fields A, B such that A exceeds B exactly on the cluster: the pair (A, B) of
\* values is in[..] inside (one pair for the centre, two alternating around the ring)
\* and out outside.
PairsAbove == { p \in Vals \X Vals : p[1] > p[2] }
PairsNotAbove == { p \in Vals \X Vals : p[1] <= p[2] }

RingDir(k) == CHOOSE d \in Dirs : get_neighbour(Centre, d) = k

TwoFieldsSet ==
    { [ i \in 1..2 |->
          [ k \in Hexes |-> IF k = Centre THEN in[1][i]
                            ELSE IF k \in Ring THEN in[2 + (RingDir(k) % 2)][i]
                            ELSE out[i] ] ] :
        in \in [1..3 -> PairsAbove], out \in PairsNotAbove }

(***************************************************************************)
(* State                                                                   *)
(***************************************************************************)
VARIABLES
    fields,            \* the scalar fields f[i][vi] (field i of the code is fields[i+1])
    threshold,         \* get_contours: the threshold << num, den >>
    norm_f,            \* get_contours: the normalized fields
    contours,          \* get_contours: the value returned
    f,                 \* the identity field, vi |-> identity
    vertices,          \* list<DirichVtx>: the candidate vertices
    h,                 \* dirichlet_vertices: the hex iterator of the vertex scan
    dv,                \* dirichlet_vertices: iterator into vertices (1-based; Len+1 is end())
    domcount,          \* dirichlet_vertices: domcount
    dirich_domains,    \* dirichlet_vertices: the domains collected so far
    one_domain,        \* dirichlet_vertices: the domain of the current attempt
    next_neighb_coord, \* dirichlet_vertices: next_neighb_coord of the current attempt
    pd,                \* process_domain: the locals of the innermost call
    depth,             \* process_domain: number of nested calls
    walk,              \* walk_common: its locals
    success,           \* the value process_domain returned
    pc,                \* where control is
    submitted,         \* history: the candidates dirichlet_vertices passed to process_domain
    failed             \* history: the domain lists of the attempts that returned false

vars == << hg, fields, threshold, norm_f, contours, f, vertices, h, dv, domcount, dirich_domains, one_domain, next_neighb_coord,
           pd, depth, walk, success, pc, submitted, failed >>

\* Rotn
Rotn == {"Unknown", "Clock", "Anticlock"}

NoWalk ==
    [ hexit |-> -1, hexit_first |-> -1, hexit_neighb |-> -1, hexit_last |-> -1,
      v_init |-> UnsetCoord, next_one |-> UnsetCoord, edgedoms |-> << FLT_MAX, FLT_MAX >>,
      hexit_first_dirn |-> INT_MAX, hexit_second_dirn |-> INT_MAX,
      hex_hex_neighb_dirn |-> INT_MAX, rot |-> "Unknown", j |-> 0, last_j |-> 0 ]

NoPd ==
    [ dv |-> 0, v |-> DirichVtxUnset, first_vtx |-> DirichVtxUnset,
      next_neighb_dom |-> FLT_MAX, next_vtx |-> UnsetCoord ]

\* The state of dirichlet_vertices before its first step.
Fresh ==
    /\ vertices = << >>
    /\ h = 0
    /\ dv = 0
    /\ domcount = 0
    /\ dirich_domains = << >>
    /\ one_domain = << >>
    /\ next_neighb_coord = UnsetCoord
    /\ pd = NoPd
    /\ depth = 0
    /\ walk = NoWalk
    /\ success = FALSE
    /\ submitted = << >>
    /\ failed = << >>

\* dirichlet_vertices is called with a supplied identity field.
Init ==
    /\ hg = HexGrid
    /\ fields = << >>
    /\ threshold = <<0, 1>>
    /\ norm_f = << >>
    /\ contours = << >>
    /\ f \in FieldSet
    /\ Fresh
    /\ pc = "scan"

\* get_contours and dirichlet_regions are called with N scalar fields.
InitFields ==
    /\ hg = HexGrid
    /\ fields \in FieldsSet
    /\ threshold \in Thresholds
    /\ norm_f = << >>
    /\ contours = << >>
    /\ f = [ k \in Hexes |-> 0 ]
    /\ Fresh
    /\ pc = "get_contours"

\* dirichlet_regions and then dirichlet_vertices are called with two scalar fields.
InitTwoFields ==
    /\ hg = HexGrid
    /\ fields \in TwoFieldsSet
    /\ threshold = <<0, 1>>
    /\ norm_f = << >>
    /\ contours = << >>
    /\ f = [ k \in Hexes |-> 0 ]
    /\ Fresh
    /\ pc = "dirichlet_regions"

GetContours ==
    /\ pc = "get_contours"
    /\ \E mn \in {MinF(fields)}, mx \in {MaxF(fields)} : norm_f' = Normalize(fields, mn, mx)
    /\ contours' = get_contours(norm_f', threshold)
    /\ pc' = "dirichlet_regions"
    /\ UNCHANGED << hg, fields, threshold, f, vertices, h, dv, domcount, dirich_domains,
                    one_domain, next_neighb_coord, pd, depth, walk, success, submitted,
                    failed >>

DirichletRegions ==
    /\ pc = "dirichlet_regions"
    /\ f' = dirichlet_regions(fields)
    /\ pc' = "scan"
    /\ UNCHANGED << hg, fields, threshold, norm_f, contours, vertices, h, dv, domcount,
                    dirich_domains, one_domain, next_neighb_coord, pd, depth, walk,
                    success, submitted, failed >>

(***************************************************************************)
(* dirichlet_vertices, part 1 (lines 830-835): vertex_test on every hex,   *)
(* in grid order.                                                          *)
(***************************************************************************)
RECURSIVE ScanFrom(_, _)
\* The candidates appended by vertex_test for the hexes k, k+1, ..
ScanFrom(fld, k) ==
    IF k = nhex THEN << >> ELSE vertex_test(fld, k) \o ScanFrom(fld, k + 1)

Scan ==
    /\ pc = "scan"
    /\ vertices' = vertices \o ScanFrom(f, 0)
    /\ h' = nhex
    /\ dv' = 1
    /\ domcount' = 0
    /\ pc' = "loop"
    /\ UNCHANGED << hg, fields, threshold, norm_f, contours, f, dirich_domains, one_domain, next_neighb_coord, pd, depth, walk,
                    success, submitted, failed >>

(***************************************************************************)
(* walk_common                                                             *)
(***************************************************************************)
\* "distance - getLR() < 0.001" for the centre of hex k and the coordinate c:
\* distance^2 = (3 dx^2 + dy^2) SR^2 / 3 and LR^2 = 4 SR^2 / 3.
correct_distance(k, c) ==
    LET x_ == hg.xy[k][1] - c[1]
        y_ == hg.xy[k][2] - c[2]
    IN  3 * x_ * x_ + y_ * y_ <= 4

\* The directions i for which the first loop swaps hexit_first to neighbour i.
SeedDirs(fld, hf, c, edgedoms) ==
    { i \in Dirs :
        /\ has_neighbour(hf, i)
        /\ correct_distance(get_neighbour(hf, i), c)
        /\ fld[get_neighbour(hf, i)] # edgedoms[2]
        /\ fld[get_neighbour(hf, i)] # edgedoms[1] }

Min(S) == CHOOSE x \in S : \A y \in S : x <= y

\* Lines 292-345: the locals of walk_common when it reaches its while loop.
WalkSeed(fld, v, edgedoms) ==
    LET sd == IF fld[v.hi] = edgedoms[1] THEN SeedDirs(fld, v.hi, v.v, edgedoms) ELSE {}
    IN  [ NoWalk EXCEPT
            !.hexit = v.hi,
            !.hexit_neighb = v.hi,
            !.hexit_last = v.hi,
            !.hexit_first = IF sd = {} THEN v.hi ELSE get_neighbour(v.hi, Min(sd)),
            !.v_init = v.v,
            !.edgedoms = edgedoms ]

\* Lines 353-425: the initial direction of the edge.  Yields << hexit_first_dirn, hexit >>.
FirstDirn(fld, w) ==
    LET hf == w.hexit_first
        m  == { i \in Dirs : compare_vertex_coord(hf, i, w.v_init) }
    IN  IF m = {}
        THEN << INT_MAX, w.hexit >>
        ELSE LET i  == Min(m)
                 up == Succ6(i)
                 dn == Pred6(i)
             IN  IF has_neighbour(hf, up) /\ fld[get_neighbour(hf, up)] = w.edgedoms[1]
                 THEN << up, get_neighbour(hf, up) >>
                 ELSE IF has_neighbour(hf, dn)
                      THEN IF fld[get_neighbour(hf, dn)] = w.edgedoms[1]
                           THEN << dn, get_neighbour(hf, dn) >>
                           ELSE << INT_MAX, get_neighbour(hf, dn) >>
                      ELSE << dn, IF has_neighbour(hf, up)
                                  THEN get_neighbour(hf, up) ELSE w.hexit >>

\* Lines 446-468 / 476-497: is the neighbour of hexit_first in direction j the second hex?
IsSecond(fld, w, nnc, j) ==
    /\ has_neighbour(w.hexit_first, j)
    /\ fld[get_neighbour(w.hexit_first, j)] = w.edgedoms[2]
    /\ (nnc[1] # FLT_MAX /\ nnc[2] # FLT_MAX) => compare_coord(get_neighbour(w.hexit_first, j), nnc)

\* Lines 433-501: yields << found_second, hexit_second_dirn, hexit_neighb >>.
FindSecond(fld, w, nnc, hfd) ==
    LET j1 == Succ6(hfd)
        j2 == Pred6(hfd)
        n1 == IF has_neighbour(w.hexit_first, j1)
              THEN get_neighbour(w.hexit_first, j1) ELSE w.hexit_neighb
    IN  IF IsSecond(fld, w, nnc, j1)
        THEN << TRUE, j1, n1 >>
        ELSE IF IsSecond(fld, w, nnc, j2)
             THEN << TRUE, j2, get_neighbour(w.hexit_first, j2) >>
             ELSE << FALSE, INT_MAX,
                     IF has_neighbour(w.hexit_first, j2)
                     THEN get_neighbour(w.hexit_first, j2) ELSE n1 >>

\* Lines 511-535: yields << rot, hex_hex_neighb_dirn >>.
Rotation(hfd, hsd) ==
    IF hsd = Pred6(hfd)
    THEN << "Anticlock", Succ6((hfd + 3) % 6) >>
    ELSE IF hsd = Succ6(hfd)
         THEN << "Clock", Pred6((hfd + 3) % 6) >>
         ELSE << "Unknown", INT_MAX >>

\* Lines 552-557
LastJ(rot, hhnd) == IF rot = "Anticlock" THEN Pred6(hhnd) ELSE Succ6(hhnd)

\* Line 563: the next direction of the rotation.
NextJ(rot, j) == IF rot = "Anticlock" THEN Succ6(j) ELSE Pred6(j)

\* walk_to_next: the identities of the edge walked from v.
walk_to_next_edgedoms(v) == << v.f, v.neighb[1] >>

(***************************************************************************)
(* process_domain, lines 721-749: copy *dv, fix first_vtx, and enter       *)
(* walk_to_next / walk_common up to its while loop.                        *)
(***************************************************************************)
ProcessDomain ==
    /\ pc = "process_domain"
    /\ LET v == vertices[pd.dv]
       IN  /\ pd' = [ pd EXCEPT !.v = v,
                                !.first_vtx = IF unset(pd.first_vtx) THEN v ELSE pd.first_vtx,
                                !.next_neighb_dom = FLT_MAX,
                                !.next_vtx = UnsetCoord ]
           /\ walk' = WalkSeed(f, v, walk_to_next_edgedoms(v))
    /\ pc' = "walk_while"
    /\ UNCHANGED << hg, fields, threshold, norm_f, contours, f, vertices, h, dv, domcount, dirich_domains, one_domain,
                    next_neighb_coord, depth, success, submitted, failed >>

(***************************************************************************)
(* walk_common, lines 348-560: one pass of the while loop up to the start  *)
(* of the rotation.  An unset hexit_first_dirn makes line 436 overflow a   *)
(* signed int: the outcome is the runtime_error of line 503 or anything    *)
(* else ("undefined").                                                     *)
(***************************************************************************)
\* Where control goes in place of the throw, were the error turned into a return.
runtime_error_as_return == "returned"

\* Lines 502-504 and 543-545: throw runtime_error.  Neither walk_common, walk_to_next,
\* process_domain nor dirichlet_vertices has a handler: control leaves them all.
runtime_error == "threw"

WalkWhile ==
    /\ pc = "walk_while"
    /\ \E fd \in { FirstDirn(f, walk) } :
       \E w1 \in { [ walk EXCEPT !.hexit_first_dirn = fd[1], !.hexit = fd[2] ] } :
          IF fd[1] = INT_MAX
          THEN /\ walk' = w1
               /\ pc' \in {runtime_error, "undefined"}
          ELSE \E fs \in { FindSecond(f, w1, next_neighb_coord, fd[1]) } :
               \E rt \in { Rotation(fd[1], fs[2]) } :
               \E w2 \in { [ w1 EXCEPT !.hexit_second_dirn = fs[2],
                                        !.hexit_neighb = fs[3] ] } :
                  IF ~fs[1]
                  THEN /\ walk' = w2
                       /\ pc' = runtime_error
                  ELSE IF fs[3] # get_neighbour(w2.hexit, rt[2])
                       THEN /\ walk' = [ w2 EXCEPT !.rot = rt[1],
                                                   !.hex_hex_neighb_dirn = rt[2] ]
                            /\ pc' = runtime_error
                       ELSE /\ walk' = [ w2 EXCEPT !.rot = rt[1],
                                                   !.hex_hex_neighb_dirn = rt[2],
                                                   !.last_j = LastJ(rt[1], rt[2]),
                                                   !.hexit_last = fs[3],
                                                   !.j = rt[2] ]
                            /\ pc' = "walk_for"
    /\ UNCHANGED << hg, fields, threshold, norm_f, contours, f, vertices, h, dv, domcount,
                    dirich_domains, one_domain, next_neighb_coord, pd, depth, success,
                    submitted, failed >>

(***************************************************************************)
(* walk_common, lines 561-635: one pass of the for loop that rotates       *)
(* around hexit, and the loop's increment and test.                        *)
(***************************************************************************)
\* A push_back that appends nothing.
push_back_nothing(path, c) == path

\* path.push_back: the path keeps its first MaxPath corners; the walk goes on.
push_back(path, c) == IF Len(path) < MaxPath THEN Append(path, c) ELSE path

\* An end on the edge of the grid that reports no sentinel identity.
grid_edge_no_sentinel == << FLT_MAX, UnsetCoord >>

\* Lines 573-575: next_neighb_dom and next_neighb_coord where the grid ends.
grid_edge == << -1, UnsetCoord >>

\* An end of the edge that reports the identity found but no location.
end_of_edge_no_coord(fld, hexit_next) == << fld[hexit_next], UnsetCoord >>

\* Lines 621-628: next_neighb_dom and next_neighb_coord where a third identity is met.
end_of_edge(fld, hexit_next) == << fld[hexit_next], hg.xy[hexit_next] >>

WalkFor ==
    /\ pc = "walk_for"
    /\ LET j      == walk.j
           corner == get_vertex_coord(walk.hexit, Pred6(j))
           nj     == NextJ(walk.rot, j)
       IN  IF ~has_neighbour(walk.hexit, j)
           THEN \* the edge ends on the edge of the grid
                /\ walk' = [ walk EXCEPT !.v_init = corner, !.next_one = corner ]
                /\ pd' = [ pd EXCEPT !.v.pathto_next = push_back(@, corner),
                                     !.next_neighb_dom = grid_edge[1],
                                     !.next_vtx = corner ]
                /\ next_neighb_coord' = grid_edge[2]
                /\ pc' = "walked"
           ELSE LET hexit_next == get_neighbour(walk.hexit, j)
                IN  IF f[hexit_next] = walk.edgedoms[2]
                    THEN /\ walk' = [ walk EXCEPT !.v_init = corner,
                                                  !.hexit_last = hexit_next,
                                                  !.j = nj ]
                         /\ pd' = [ pd EXCEPT !.v.pathto_next = push_back(@, corner) ]
                         /\ pc' = IF nj = walk.last_j THEN "walk_while" ELSE "walk_for"
                         /\ UNCHANGED next_neighb_coord
                    ELSE IF f[hexit_next] = walk.edgedoms[1]
                         THEN \* cycle around the hexes
                              /\ walk' = [ walk EXCEPT !.v_init = corner,
                                                       !.hexit_first = walk.hexit,
                                                       !.hexit = hexit_next,
                                                       !.hexit_neighb = walk.hexit_last ]
                              /\ pc' = "walk_while"
                              /\ UNCHANGED << pd, next_neighb_coord >>
                         ELSE \* neither identity: the end of the edge
                              /\ walk' = [ walk EXCEPT !.v_init = corner, !.next_one = corner ]
                              /\ pd' = [ pd EXCEPT !.v.pathto_next = push_back(@, corner),
                                                   !.next_neighb_dom = end_of_edge(f, hexit_next)[1],
                                                   !.next_vtx = corner ]
                              /\ next_neighb_coord' = end_of_edge(f, hexit_next)[2]
                              /\ pc' = "walked"
    /\ UNCHANGED << hg, fields, threshold, norm_f, contours, f, vertices, h, dv, domcount, dirich_domains, one_domain,
                    depth, success, submitted, failed >>

(***************************************************************************)
(* process_domain, lines 754-814: close *dv, append v to the domain and    *)
(* look for the vertex the walk arrived at.                                *)
(***************************************************************************)
\* A closing that marks candidate k and clears the mark of every other candidate.
close_only(vs, k) == [ n \in 1..Len(vs) |-> [ vs[n] EXCEPT !.closed = (n = k) ] ]

\* A closing that marks nothing.
close_none(vs, k) == vs

\* Lines 754 and 849: dv->closed = true
close(vs, k) == [ vs EXCEPT ![k].closed = TRUE ]

\* A match test that does not look at the closed flag.
MatchesNext_closed_or_not(vs, k, v, next_vtx, next_neighb_dom) ==
    /\ compare(vs[k], next_vtx)
    /\ vs[k].f = v.f
    /\ vs[k].neighb[2] = v.neighb[1]
    /\ vs[k].neighb[1] = next_neighb_dom

\* A match test that looks at the closed flag and the coordinate alone.
MatchesNext_coordinate_only(vs, k, v, next_vtx, next_neighb_dom) ==
    /\ ~vs[k].closed
    /\ compare(vs[k], next_vtx)

\* Lines 766-776: does candidate k match the vertex the walk from v arrived at?
MatchesNext(vs, k, v, next_vtx, next_neighb_dom) ==
    /\ ~vs[k].closed
    /\ compare(vs[k], next_vtx)
    /\ vs[k].f = v.f
    /\ vs[k].neighb[2] = v.neighb[1]
    /\ vs[k].neighb[1] = next_neighb_dom

\* Lines 757-792: the candidates the search may stop at.
MatchSet(vs, v, next_vtx, next_neighb_dom) ==
    { k \in 1..Len(vs) : MatchesNext(vs, k, v, next_vtx, next_neighb_dom) }

\* A test of the first vertex that compares the x coordinate alone.
BackAtFirst_x_only(first_vtx, next_vtx) == first_vtx.v[1] = next_vtx[1]

\* Line 758: has the walk arrived back at the first vertex?
BackAtFirst(first_vtx, next_vtx) == compare(first_vtx, next_vtx)

\* The candidate the search stops at (the first match in list order).
FirstMatch(S) == Min(S)

ProcessDomainMatch ==
    /\ pc = "walked"
    /\ LET vs == close(vertices, pd.dv)
           ms == MatchSet(vs, pd.v, pd.next_vtx, pd.next_neighb_dom)
       IN  /\ vertices' = vs
           /\ one_domain' = Append(one_domain, pd.v)
           /\ IF ~BackAtFirst(pd.first_vtx, pd.next_vtx)
              THEN IF ms = {}
                   THEN \* no match for next_vtx
                        /\ success' = FALSE
                        /\ pc' = "returned"
                        /\ UNCHANGED << pd, depth >>
                   ELSE IF ~vs[FirstMatch(ms)].onBoundary
                        THEN \* recurse
                             /\ pd' = [ pd EXCEPT !.dv = FirstMatch(ms) ]
                             /\ depth' = depth + 1
                             /\ pc' = "process_domain"
                             /\ UNCHANGED success
                        ELSE \* arrived at a boundary vertex
                             /\ pd' = [ pd EXCEPT !.dv = FirstMatch(ms) ]
                             /\ success' = FALSE
                             /\ pc' = "returned"
                             /\ UNCHANGED depth
              ELSE /\ success' = TRUE
                   /\ pc' = "returned"
                   /\ UNCHANGED << pd, depth >>
    /\ UNCHANGED << hg, fields, threshold, norm_f, contours, f, h, dv, domcount, dirich_domains, next_neighb_coord, walk,
                    submitted, failed >>

(***************************************************************************)
(* dirichlet_vertices, part 2 (lines 841-864)                              *)
(***************************************************************************)
\* Line 844: the loop condition (domcount++ is evaluated only if dv is not end()).
LoopContinues(vs, d, dc) == d # Len(vs) + 1 /\ dc < DomCap

\* One pass of the while loop up to the call of process_domain, or the return.
Loop ==
    /\ pc = "loop"
    /\ domcount' = IF dv # Len(vertices) + 1 THEN domcount + 1 ELSE domcount
    /\ IF LoopContinues(vertices, dv, domcount)
       THEN IF boundaryHex(vertices[dv].hi)
            THEN /\ vertices' = close(vertices, dv)
                 /\ dv' = dv + 1
                 /\ one_domain' = << >>
                 /\ pc' = "loop"
                 /\ UNCHANGED << next_neighb_coord, pd, depth, submitted >>
            ELSE /\ one_domain' = << >>
                 /\ next_neighb_coord' = UnsetCoord
                 /\ pd' = [ NoPd EXCEPT !.dv = dv ]
                 /\ depth' = 1
                 /\ submitted' = Append(submitted, dv)
                 /\ pc' = "process_domain"
                 /\ UNCHANGED << vertices, dv >>
       ELSE /\ pc' = "done"
            /\ UNCHANGED << vertices, dv, one_domain, next_neighb_coord, pd, depth,
                            submitted >>
    /\ UNCHANGED << hg, fields, threshold, norm_f, contours, f, h, dirich_domains, walk, success, failed >>

\* Lines 853-859: process_domain has returned to dirichlet_vertices.
Returned ==
    /\ pc = "returned"
    /\ dv' = dv + 1
    /\ IF success
       THEN dirich_domains' = Append(dirich_domains, one_domain) /\ UNCHANGED failed
       ELSE failed' = Append(failed, one_domain) /\ UNCHANGED dirich_domains
    /\ pc' = "loop"
    /\ UNCHANGED << hg, fields, threshold, norm_f, contours, f, vertices, h, domcount, one_domain, next_neighb_coord, pd, depth,
                    walk, success, submitted >>

Next ==
    \/ Scan
    \/ Loop
    \/ ProcessDomain
    \/ WalkWhile
    \/ WalkFor
    \/ ProcessDomainMatch
    \/ Returned

Spec == Init /\ [][Next]_vars

\* get_contours, then dirichlet_regions, on N scalar fields.
NextFields ==
    \/ GetContours
    \/ DirichletRegions

SpecFields == InitFields /\ [][NextFields]_vars

\* dirichlet_regions, then dirichlet_vertices, on two scalar fields.
NextTwoFields ==
    \/ DirichletRegions
    \/ Scan
    \/ Loop

SpecTwoFields == InitTwoFields /\ [][NextTwoFields]_vars

(***************************************************************************)
(* process_domain called on its own: from every candidate in turn, each    *)
(* time on a freshly scanned candidate list and an empty domain.           *)
(***************************************************************************)
CallProcessDomain ==
    /\ pc = "loop"
    /\ IF dv # Len(vertices) + 1
       THEN /\ vertices' = ScanFrom(f, 0)
            /\ one_domain' = << >>
            /\ next_neighb_coord' = UnsetCoord
            /\ pd' = [ NoPd EXCEPT !.dv = dv ]
            /\ depth' = 1
            /\ submitted' = Append(submitted, dv)
            /\ pc' = "process_domain"
       ELSE /\ pc' = "done"
            /\ UNCHANGED << vertices, one_domain, next_neighb_coord, pd, depth, submitted >>
    /\ UNCHANGED << hg, fields, threshold, norm_f, contours, f, h, dv, domcount,
                    dirich_domains, walk, success, failed >>

\* The call ended with the runtime_error or in undefined behaviour, or its walk has
\* gone on for MaxPath corners: on to the next call.
Thrown ==
    /\ \/ pc \in {"threw", "undefined"}
       \/ pc = "walk_for" /\ Len(pd.v.pathto_next) >= MaxPath
    /\ dv' = dv + 1
    /\ pc' = "loop"
    /\ UNCHANGED << hg, fields, threshold, norm_f, contours, f, vertices, h, domcount,
                    dirich_domains, one_domain, next_neighb_coord, pd, depth, walk,
                    success, submitted, failed >>

NextPD ==
    \/ Scan
    \/ CallProcessDomain
    \/ ProcessDomain
    \/ WalkWhile
    \/ WalkFor
    \/ ProcessDomainMatch
    \/ Returned
    \/ Thrown

SpecPD == Init /\ [][NextPD]_vars

(***************************************************************************)
(* Properties of get_contours and dirichlet_regions (under SpecFields).    *)
(***************************************************************************)
\* a <= t for a normalized value a and a threshold t.
Le(a, t) == IF a[2] = 0 THEN a[1] < 0 ELSE a[1] * t[2] <= t[1] * a[2]

\* Does the list s hold the hex k?
InList(s, k) == \E n \in 1..Len(s) : s[n] = k

\* get_contours has returned.
ContoursDone == pc # "get_contours" /\ norm_f # << >>

\* The neighbours of hex k.
Nbrs(k) == { get_neighbour(k, d) : d \in { e \in Dirs : has_neighbour(k, e) } }

\* C6, as stated: a hex is in list i iff its normalized value exceeds the threshold and
\* it is on the boundary or has a neighbour whose normalized value is less than or
\* equal to the threshold.
C6_MemberIffNeighbourAtOrBelow ==
    ContoursDone =>
        \A i \in 1..Len(norm_f), k \in Hexes :
            InList(contours[i], k) <=>
                /\ Gt(norm_f[i][k], threshold)
                /\ onBoundary(k) \/ \E n \in Nbrs(k) : Le(norm_f[i][n], threshold)

\* C6, amended: a hex is in list i iff its normalized value exceeds the threshold and
\* it is on the boundary or has a neighbour whose normalized value is strictly less
\* than the threshold; the list is in grid order, each member once.
C6_MemberIffNeighbourBelow ==
    ContoursDone =>
        \A i \in 1..Len(norm_f) :
            /\ \A k \in Hexes :
                   InList(contours[i], k) <=>
                       /\ Gt(norm_f[i][k], threshold)
                       /\ onBoundary(k) \/ \E n \in Nbrs(k) : Lt(norm_f[i][n], threshold)
            /\ \A n \in 1..(Len(contours[i]) - 1) : contours[i][n] < contours[i][n + 1]

\* C6, witness: a hex off the boundary exceeds the threshold, has a neighbour at the
\* threshold and none below it, and is not in the list.
C6_NeighbourAtThresholdLeftOut ==
    /\ ContoursDone
    /\ \E i \in 1..Len(norm_f), k \in InnerHexes :
           /\ Gt(norm_f[i][k], threshold)
           /\ \E n \in Nbrs(k) : Le(norm_f[i][n], threshold) /\ ~Lt(norm_f[i][n], threshold)
           /\ \A n \in Nbrs(k) : ~Lt(norm_f[i][n], threshold)
           /\ ~InList(contours[i], k)

\* C7, as stated: the normalized value of every hex in every field lies in [0,1].
C7_AllNormalizedInUnitInterval ==
    ContoursDone =>
        \A i \in 1..Len(norm_f), k \in Hexes :
            norm_f[i][k][2] > 0 /\ 0 <= norm_f[i][k][1] /\ norm_f[i][k][1] <= norm_f[i][k][2]

\* C7, amended: all fields are normalized with one offset and one scale, taken from the
\* hexes that are not on the boundary; where the scale is finite the normalized value
\* of every hex that is not on the boundary lies in [0,1], and the scale is finite
\* when two of those hexes differ in value.
C7_InnerNormalizedInUnitInterval ==
    ContoursDone =>
        /\ \A i \in 1..Len(norm_f), k \in Hexes :
               /\ norm_f[i][k][2] = norm_f[1][Centre][2]
               /\ norm_f[i][k][1] - fields[i][k] = norm_f[1][Centre][1] - fields[1][Centre]
        /\ \A i \in 1..Len(norm_f), k \in InnerHexes :
               /\ norm_f[i][k][2] >= 0
               /\ 0 <= norm_f[i][k][1]
               /\ norm_f[i][k][1] <= norm_f[i][k][2]
               /\ fields[i][k] # fields[1][Centre] => norm_f[i][k][2] > 0

\* C7, witness: the scale is finite and a hex on the boundary has a normalized value
\* above 1.
C7_BoundaryHexAboveOne ==
    /\ ContoursDone
    /\ \E i \in 1..Len(norm_f), k \in Hexes :
           onBoundary(k) /\ norm_f[i][k][2] > 0 /\ norm_f[i][k][1] > norm_f[i][k][2]

\* dirichlet_regions has returned.
RegionsDone == pc = "scan" /\ fields # << >>

\* C8, as stated: the label of every hex is i/N for the lowest index i at which the
\* field value at the hex is the maximum over the N fields, so 0 <= label < 1.
C8_LabelIsLowestArgmax ==
    RegionsDone =>
        \A k \in Hexes :
            /\ f[k] \in 0..(Len(fields) - 1)
            /\ \A j \in 1..Len(fields) : fields[j][k] <= fields[f[k] + 1][k]
            /\ \A j \in 1..f[k] : fields[j][k] < fields[f[k] + 1][k]

(***************************************************************************)
(* Properties of the vertex scan and of the loop of dirichlet_vertices.    *)
(***************************************************************************)
\* The candidates, by their index in vertices.
Cands == 1..Len(vertices)

\* dirichlet_vertices has returned.
Done == pc = "done"

\* C1, as stated: when dirichlet_vertices returns, every candidate that is not on the
\* boundary is closed or has been submitted to process_domain, and every domain that
\* closed is in the returned collection.
C1_AllCandidatesAttempted ==
    Done =>
        /\ \A k \in Cands :
               (~vertices[k].onBoundary /\ ~boundaryHex(vertices[k].hi))
                   => (vertices[k].closed \/ InList(submitted, k))
        /\ Len(dirich_domains) + Len(failed) = Len(submitted)

\* The two fields of the cluster test: field A exceeds field B exactly on the cluster.
ClusterFields ==
    /\ Len(fields) = 2
    /\ \A k \in Hexes : fields[1][k] > fields[2][k] <=> k \in Cluster

\* C2, as stated: on the two fields of the cluster test dirichlet_vertices returns
\* exactly one domain, of 6 vertices.
C2_OneDomainOfSixVertices ==
    (Done /\ ClusterFields) => Len(dirich_domains) = 1 /\ Len(dirich_domains[1]) = 6

\* C2, amended: on the two fields of the cluster test the hexes are labelled 0 where
\* A >= B and 1 elsewhere, no hex yields a candidate vertex, and dirichlet_vertices
\* returns no domain.
C2_NoVertexNoDomain ==
    (pc \in {"loop", "done"} /\ ClusterFields) =>
        /\ \A k \in Hexes : f[k] = IF fields[1][k] >= fields[2][k] THEN 0 ELSE 1
        /\ \A k \in Cluster : f[k] = 0
        /\ vertices = << >>
        /\ dirich_domains = << >>
        /\ submitted = << >>

\* C2, witness: dirichlet_vertices has returned on the two fields of the cluster test,
\* with the cluster labelled 0 and every other hex labelled 1.
C2_ReturnedOnCluster ==
    /\ Done
    /\ ClusterFields
    /\ \A k \in Hexes : f[k] = IF k \in Cluster THEN 0 ELSE 1

\* The candidates that are not flagged onBoundary.
InnerCands == { k \in Cands : ~vertices[k].onBoundary }

\* The corners of the centre hex at which the three bands meet.
TriplePoints ==
    { get_vertex_coord(Centre, d) :
        d \in { e \in Dirs : f[get_neighbour(Centre, e)] # f[get_neighbour(Centre, Succ6(e))] } }

\* The vertex scan has run on the three bands.
BandsScanned == f = BandField /\ pc # "scan"

\* C5, as stated: on the three bands the scan yields exactly two vertices, both
\* interior, each with the two identities flanking it as its neighbour pair.
C5_ExactlyTwoVertices ==
    BandsScanned =>
        /\ Len(vertices) = 2
        /\ \A k \in Cands :
               /\ ~vertices[k].onBoundary
               /\ vertices[k].v \in TriplePoints
               /\ {vertices[k].f, vertices[k].neighb[1], vertices[k].neighb[2]} = {0, 1, 2}

\* C5, amended: on the three bands the candidates not flagged onBoundary lie at the two
\* points where the bands meet, three at each point: one for each of the three hexes
\* around it, carrying that hex's identity and the other two identities as its
\* neighbour pair.  Every other candidate is flagged onBoundary, belongs to a hex on
\* the boundary and has the sentinel -1 in its neighbour pair.
C5_ThreeCandidatesPerTriplePoint ==
    BandsScanned =>
        /\ Cardinality(TriplePoints) = 2
        /\ { vertices[k].v : k \in InnerCands } = TriplePoints
        /\ \A p \in TriplePoints, i \in {0, 1, 2} :
               Cardinality({ k \in InnerCands : vertices[k].v = p /\ vertices[k].f = i }) = 1
        /\ \A k \in InnerCands :
               /\ vertices[k].f = f[vertices[k].hi]
               /\ {vertices[k].f, vertices[k].neighb[1], vertices[k].neighb[2]} = {0, 1, 2}
        /\ \A k \in Cands \ InnerCands :
               /\ boundaryHex(vertices[k].hi)
               /\ -1 \in {vertices[k].neighb[1], vertices[k].neighb[2]}

\* C5, witness: the scan has run on the three bands and found six candidates that are
\* not flagged onBoundary.
C5_SixInnerCandidates ==
    BandsScanned /\ Cardinality(InnerCands) = 6

(***************************************************************************)
(* Properties of process_domain called from every candidate (SpecPD).      *)
(***************************************************************************)
\* What identifies a vertex of a domain: its hex, location, identity and neighbours.
Key(w) == << w.hi, w.v, w.f, w.neighb >>

\* The vertices of the domain D, in the order they were appended.
Keys(D) == [ n \in 1..Len(D) |-> Key(D[n]) ]

\* B lists the elements of A in the same cyclic order.
IsRotation(A, B) ==
    /\ Len(A) = Len(B)
    /\ \E r \in 0..(Len(A) - 1) : \A n \in 1..Len(A) : B[n] = A[((n - 1 + r) % Len(A)) + 1]

\* C3: closure round trip.  Once process_domain has been called from every candidate:
\* for every domain of k vertices that closed, the call from any one of its vertices
\* closed too, and its domain lists the same k vertices, each once, in the same cyclic
\* order, starting at the vertex the call was made from.
C3_ClosureRoundTrip ==
    Done =>
        \A i \in 1..Len(dirich_domains) :
            /\ \A m, n \in 1..Len(dirich_domains[i]) :
                   Key(dirich_domains[i][m]) = Key(dirich_domains[i][n]) => m = n
            /\ \A n \in 1..Len(dirich_domains[i]) :
                   \E j \in 1..Len(dirich_domains) :
                       /\ Key(dirich_domains[j][1]) = Key(dirich_domains[i][n])
                       /\ IsRotation(Keys(dirich_domains[i]), Keys(dirich_domains[j]))

SecondHexMissing ==
    /\ pc = "walk_while"
    /\ FirstDirn(f, walk)[1] # INT_MAX
    /\ \A j \in { Succ6(FirstDirn(f, walk)[1]), Pred6(FirstDirn(f, walk)[1]) } :
           \/ ~has_neighbour(walk.hexit_first, j)
           \/ f[get_neighbour(walk.hexit_first, j)] # walk.edgedoms[2]
           \/ /\ next_neighb_coord # UnsetCoord
              /\ hg.xy[get_neighbour(walk.hexit_first, j)] # next_neighb_coord

\* C9: when the walk cannot find the second hex, or its direction check fails, the
\* pass ends in the runtime_error and in nothing else; the error is raised by the walk
\* alone, nothing is returned or recorded as it is raised (no domain, no false result),
\* and no step of process_domain or dirichlet_vertices follows it.
C9_WalkErrorPropagates ==
    [][ /\ SecondHexMissing => pc' = "threw"
        /\ (pc = "walk_while" /\ FirstDirn(f, walk)[1] # INT_MAX)
               => pc' \in {"walk_for", "threw"}
        /\ pc' = "threw" =>
               /\ pc = "walk_while"
               /\ UNCHANGED << vertices, dv, one_domain, dirich_domains, failed, success >>
        /\ pc = "threw" => pc' = "threw" ]_vars

\* C9, witness: the walk has ended in the runtime_error, the second hex not found.
C9_SecondHexNotFound ==
    /\ pc = "threw"
    /\ walk.hexit_first_dirn # INT_MAX
    /\ walk.hexit_second_dirn = INT_MAX

\* C10, as stated: after an attempt that returned false, the loop of dirichlet_vertices
\* goes on to the next candidate, if there is one.
C10_LoopProceedsAfterFailure ==
    [][ (pc = "returned" /\ ~success /\ dv' # Len(vertices') + 1)
            => LoopContinues(vertices', dv', domcount') ]_vars

(***************************************************************************)
(* Which candidates closure is run on.                                     *)
(***************************************************************************)
\* C11: process_domain is never entered, from dirichlet_vertices or from its own
\* recursion, on a candidate that vertex_test detected on a boundary hex.
C11_NoBoundaryHexVertexInClosure ==
    pc = "process_domain" => ~boundaryHex(vertices[pd.dv].hi)

\* C12: the closed flag of a candidate is monotonic: no step of dirichlet_vertices or
\* process_domain, on success, on failure or on the way to an error, removes a
\* candidate or turns its closed flag from true to false.
C12_ClosedIsMonotonic ==
    [][ \A k \in 1..Len(vertices) :
          vertices[k].closed => (k <= Len(vertices') /\ vertices'[k].closed) ]_vars

\* An attempt closed two candidates and a third step ended in the runtime_error,
\* after an earlier candidate was closed by the boundary test.
C12_ClosedThenThrew ==
    /\ pc = "threw"
    /\ depth >= 2
    /\ \E i, j \in 1..Len(vertices) :
          /\ vertices[i].closed /\ boundaryHex(vertices[i].hi)
          /\ vertices[j].closed /\ ~boundaryHex(vertices[j].hi)

(***************************************************************************)
(* Termination.  The code runs sequentially: whenever a step is possible   *)
(* it is taken.                                                            *)
(***************************************************************************)
\* dirichlet_vertices is called with an identity field of the flat background.
InitFlat ==
    /\ Init
    /\ \A k \in Hexes \ Cluster : f[k] = Background("flat", k)

FairSpec == InitFlat /\ [][Next]_vars /\ WF_vars(Next)

\* C13: every call terminates: the walk of walk_common never scans or pivots forever,
\* so dirichlet_vertices eventually returns or ends in the error of walk_common
\* (thrown, or the undefined behaviour of an unset direction).
C13_EveryCallTerminates == <>(pc \in {"done", "threw", "undefined"})

(***************************************************************************)
(* The rules of vertex_test.                                               *)
(***************************************************************************)
\* The vertex scan has just run: the candidates are as vertex_test appended them.
Scanned == pc = "loop" /\ domcount = 0

\* The candidates of hex k, in list order.
VerticesOf(k) == SelectSeq(vertices, LAMBDA vtx : vtx.hi = k)

\* The identity of the neighbour of hex k in direction d.
IdAt(k, d) == f[get_neighbour(k, d)]

\* The directions d of hex k at which three identities meet: the neighbours at d and
\* d+1 exist, the first differs from k, the second from k and from the first.
TripleDirs(k) ==
    { d \in Dirs : /\ has_neighbour(k, d) /\ has_neighbour(k, Succ6(d))
                   /\ IdAt(k, d) # f[k]
                   /\ IdAt(k, Succ6(d)) # f[k]
                   /\ IdAt(k, Succ6(d)) # IdAt(k, d) }

\* C14: for an interior hex with at least 3 identities among itself and its neighbours,
\* vertex_test appends exactly one vertex per direction d at which three identities
\* meet, at corner d, with the hex's identity and the neighbour pair (identity at d+1,
\* identity at d), in the order of d; with fewer than 3 identities it appends nothing.
C14_InteriorVertexRule ==
    Scanned =>
        \A k \in Hexes :
            ~boundaryHex(k) =>
                IF Cardinality(n_ids(f, k)) >= 3
                THEN /\ Len(VerticesOf(k)) = Cardinality(TripleDirs(k))
                     /\ \A d \in TripleDirs(k) :
                           \E n \in 1..Len(VerticesOf(k)) :
                              /\ n = Cardinality({ e \in TripleDirs(k) : e <= d })
                              /\ VerticesOf(k)[n].v = get_vertex_coord(k, d)
                              /\ VerticesOf(k)[n].f = f[k]
                              /\ VerticesOf(k)[n].neighb = << IdAt(k, Succ6(d)), IdAt(k, d) >>
                ELSE VerticesOf(k) = << >>

\* The scan has met an interior hex with vertices at two corners or more, an interior
\* hex of three identities none of whose corners is a vertex, and an interior hex of
\* two identities.
C14_InteriorHexesOfEachKind ==
    /\ Scanned
    /\ \E k \in Hexes : ~boundaryHex(k) /\ Cardinality(TripleDirs(k)) >= 2
    /\ \E k \in Hexes : /\ ~boundaryHex(k) /\ Cardinality(n_ids(f, k)) >= 3
                        /\ TripleDirs(k) = {}
    /\ \E k \in Hexes : ~boundaryHex(k) /\ Cardinality(n_ids(f, k)) = 2

\* The candidates of hex k that are flagged onBoundary, in list order.
BoundaryVerticesOf(k) == SelectSeq(VerticesOf(k), LAMBDA vtx : vtx.onBoundary)

\* The neighbour of hex k in direction d exists and differs from k.
Differs(k, d) == has_neighbour(k, d) /\ IdAt(k, d) # f[k]

\* The directions of hex k that yield a boundary vertex: the neighbour differs and the
\* neighbour at d+1, or else the one at d-1, is missing.
EdgeDirs(k) ==
    { d \in Dirs : Differs(k, d)
                   /\ (~has_neighbour(k, Succ6(d)) \/ ~has_neighbour(k, Pred6(d))) }

\* C15: for a boundary hex with at least 2 identities, the vertices flagged onBoundary
\* are, in the order of d, one per direction d whose neighbour exists and differs from
\* the hex: at corner d with pair (-1, identity at d) if there is no neighbour at d+1,
\* otherwise at corner d-1 with pair (identity at d, -1) if there is no neighbour at
\* d-1, otherwise none; they precede the other vertices of the hex.
C15_BoundaryVertexRule ==
    Scanned =>
        \A k \in Hexes :
            (boundaryHex(k) /\ Cardinality(n_ids(f, k)) >= 2) =>
                /\ Len(BoundaryVerticesOf(k)) = Cardinality(EdgeDirs(k))
                /\ SubSeq(VerticesOf(k), 1, Cardinality(EdgeDirs(k))) = BoundaryVerticesOf(k)
                /\ \A d \in EdgeDirs(k) :
                      \E n \in 1..Len(BoundaryVerticesOf(k)) :
                         /\ n = Cardinality({ e \in EdgeDirs(k) : e <= d })
                         /\ BoundaryVerticesOf(k)[n].f = f[k]
                         /\ IF ~has_neighbour(k, Succ6(d))
                            THEN /\ BoundaryVerticesOf(k)[n].v = get_vertex_coord(k, d)
                                 /\ BoundaryVerticesOf(k)[n].neighb = << -1, IdAt(k, d) >>
                            ELSE /\ BoundaryVerticesOf(k)[n].v = get_vertex_coord(k, Pred6(d))
                                 /\ BoundaryVerticesOf(k)[n].neighb = << IdAt(k, d), -1 >>

\* The scan has met a boundary hex with a vertex of each of the two cases and a
\* differing neighbour, both of whose neighbouring directions exist, that yields none.
C15_BothEdgeCases ==
    /\ Scanned
    /\ \E k \in Hexes : boundaryHex(k) /\
          /\ \E d \in Dirs : Differs(k, d) /\ ~has_neighbour(k, Succ6(d))
          /\ \E d \in Dirs : /\ Differs(k, d) /\ has_neighbour(k, Succ6(d))
                             /\ ~has_neighbour(k, Pred6(d))
          /\ \E d \in Dirs : /\ Differs(k, d) /\ has_neighbour(k, Succ6(d))
                             /\ has_neighbour(k, Pred6(d))

\* C16: every candidate that vertex_test created for a boundary hex is flagged
\* onBoundary.
C16_BoundaryHexVerticesFlagged ==
    \A n \in 1..Len(vertices) : boundaryHex(vertices[n].hi) => vertices[n].onBoundary

(***************************************************************************)
(* The steps of process_domain.                                            *)
(***************************************************************************)
\* Candidate k of the list vs qualifies as the successor of v: it is unclosed, lies at
\* the coordinate c the walk returned, has the identity of v, and the neighbour pair
\* (identity the walk discovered, v.neighb.first).
Qualifies(vs, k, v, c, id) ==
    /\ ~vs[k].closed
    /\ vs[k].v = c
    /\ vs[k].f = v.f
    /\ vs[k].neighb = << id, v.neighb[1] >>

\* C17: the candidate process_domain continues with after the walk from v is the first
\* one, in list order, that is unclosed at that moment, lies at the coordinate the walk
\* returned, has the identity v.f and the neighbour pair (identity discovered by the
\* walk, v.neighb.first).
C17_SuccessorSelection ==
    [][ (pc = "walked" /\ pc' = "process_domain") =>
          /\ pd'.dv \in 1..Len(vertices')
          /\ Qualifies(vertices', pd'.dv, pd.v, pd.next_vtx, pd.next_neighb_dom)
          /\ \A m \in 1..(pd'.dv - 1) :
                ~Qualifies(vertices', m, pd.v, pd.next_vtx, pd.next_neighb_dom) ]_vars

\* process_domain has recursed on a candidate, passing over an earlier unclosed
\* candidate at the same coordinate.
C17_PassedOverEarlierCandidate ==
    /\ pc = "process_domain"
    /\ depth >= 2
    /\ \E m \in 1..(pd.dv - 1) : ~vertices[m].closed /\ vertices[m].v = vertices[pd.dv].v

\* C18: process_domain returns success only when the walk has arrived at the starting
\* vertex itself: at its coordinate, with its identity equal to that of the vertex
\* walked from, and with its neighbour pair equal to (identity discovered by the walk,
\* neighb.first of the vertex walked from).
C18_SuccessOnlyAtStartVertex ==
    (pc = "returned" /\ success) =>
        /\ pd.first_vtx.v = pd.next_vtx
        /\ pd.first_vtx.f = pd.v.f
        /\ pd.first_vtx.neighb = << pd.next_neighb_dom, pd.v.neighb[1] >>

\* A closure of three vertices or more has returned success while an unclosed
\* candidate of another domain lies at the coordinate of the starting vertex.
C18_ClosedWithOtherDomainAtStart ==
    /\ pc = "returned"
    /\ success
    /\ Len(one_domain) >= 3
    /\ \E m \in 1..Len(vertices) :
          /\ ~vertices[m].closed
          /\ vertices[m].v = pd.first_vtx.v
          /\ vertices[m].f # pd.first_vtx.f

\* C19: dirichlet_vertices passes only unclosed candidates to process_domain: the
\* candidate a closure attempt starts from has not been closed by an earlier attempt.
C19_AttemptsStartUnclosed ==
    (pc = "process_domain" /\ depth = 1) => ~vertices[pd.dv].closed

\* C20: closure mutates the candidate list in place: once process_domain has processed
\* candidate v, the list entry of v is closed and its pathto_next holds the corners the
\* walk from v traced, and the record of v appended to the domain carries the same
\* closed flag and the same path.
C20_ClosureMutatesInPlace ==
    [][ pc = "walked" =>
          /\ vertices'[pd.dv].closed
          /\ vertices'[pd.dv].pathto_next = pd.v.pathto_next
          /\ one_domain'[Len(one_domain')].closed = vertices'[pd.dv].closed
          /\ one_domain'[Len(one_domain')].pathto_next = vertices'[pd.dv].pathto_next ]_vars

(***************************************************************************)
(* The ends of an edge walk                                                *)
(***************************************************************************)
\* The rotation scan is about to test a direction of the current cell.
Testing == pc = "walk_for"

\* The neighbour the scan tests exists and carries neither identity of the edge.
TestsThirdIdentity ==
    /\ Testing
    /\ has_neighbour(walk.hexit, walk.j)
    /\ f[get_neighbour(walk.hexit, walk.j)] \notin { walk.edgedoms[1], walk.edgedoms[2] }

\* The scan tests a direction in which the current cell has no neighbour.
TestsNoNeighbour == Testing /\ ~has_neighbour(walk.hexit, walk.j)

\* c is a corner of hex k.
CornerOfHex(k, c) == \E d \in Dirs : compare_vertex_coord(k, d, c)

\* C21: when the scan tests a neighbour whose identity C is neither A nor B, the walk
\* ends there: it returns the corner at the tested direction, a corner the current cell
\* shares with that neighbour, which is also the last coordinate of the path; the
\* new-neighbour identity is C and the new-neighbour location is that neighbour's centre.
C21_ThirdIdentityEndsWalk ==
    [][ TestsThirdIdentity =>
          LET nb == get_neighbour(walk.hexit, walk.j)
          IN  /\ pc' = "walked"
              /\ walk'.next_one = get_vertex_coord(walk.hexit, Pred6(walk.j))
              /\ pd'.next_vtx = walk'.next_one
              /\ CornerOfHex(walk.hexit, pd'.next_vtx)
              /\ CornerOfHex(nb, pd'.next_vtx)
              /\ pd'.v.pathto_next # << >>
              /\ Len(pd.v.pathto_next) < MaxPath
                    => pd'.v.pathto_next = Append(pd.v.pathto_next, pd'.next_vtx)
              /\ pd'.next_neighb_dom = f[nb]
              /\ pd'.next_neighb_dom \notin { walk.edgedoms[1], walk.edgedoms[2] }
              /\ next_neighb_coord' = CentreOf(nb) ]_vars

\* A walk has ended at a third identity around a cell other than the cell of its vertex.
C21_EndedAtThirdIdentityAroundOtherCell ==
    /\ pc = "walked"
    /\ pd.next_neighb_dom \in Ids
    /\ walk.hexit # pd.v.hi
    /\ next_neighb_coord # UnsetCoord

\* C22: when the scan tests a direction without a neighbour, the walk ends there: it
\* returns the corner at the tested direction, which is the last coordinate of the path,
\* reports the identity -1 and resets the new-neighbour location to unset.
C22_GridEdgeEndsWalk ==
    [][ TestsNoNeighbour =>
          /\ pc' = "walked"
          /\ walk'.next_one = get_vertex_coord(walk.hexit, Pred6(walk.j))
          /\ pd'.next_vtx = walk'.next_one
          /\ pd'.v.pathto_next # << >>
          /\ Len(pd.v.pathto_next) < MaxPath
                => pd'.v.pathto_next = Append(pd.v.pathto_next, pd'.next_vtx)
          /\ pd'.next_neighb_dom = -1
          /\ next_neighb_coord' = UnsetCoord ]_vars

\* A walk that had a new-neighbour location recorded by an earlier walk ended on the
\* edge of the grid, and the location is unset again.
C22_EndedAtGridEdge ==
    /\ pc = "walked"
    /\ pd.next_neighb_dom = -1
    /\ next_neighb_coord = UnsetCoord
    /\ depth >= 2

(***************************************************************************)
(* The pivot                                                               *)
(***************************************************************************)
\* The neighbour the scan tests exists and carries the first identity of the edge.
TestsFirstIdentity ==
    /\ Testing
    /\ has_neighbour(walk.hexit, walk.j)
    /\ f[get_neighbour(walk.hexit, walk.j)] = walk.edgedoms[1]
    /\ f[get_neighbour(walk.hexit, walk.j)] # walk.edgedoms[2]

\* What lines 353-501 of the next pass of the while loop make of the locals w:
\* << hexit_first_dirn, hexit, found_second, hexit_second_dirn, hexit_neighb >>.
NextScan(w, nnc) ==
    LET fd == FirstDirn(f, w)
        fs == FindSecond(f, [ w EXCEPT !.hexit_first_dirn = fd[1], !.hexit = fd[2] ], nnc, fd[1])
    IN  << fd[1], fd[2], fs[1], fs[2], fs[3] >>

\* C23: when the scan meets a neighbour of identity A, the next scan is made around
\* exactly that neighbour, with the last neighbour seen with identity B as its B-side
\* reference.
C23_PivotKeepsCellAndReference ==
    [][ TestsFirstIdentity =>
          LET nb == get_neighbour(walk.hexit, walk.j)
              ns == NextScan(walk', next_neighb_coord')
          IN  /\ pc' = "walk_while"
              /\ walk'.hexit = nb
              /\ walk'.hexit_neighb = walk.hexit_last
              /\ ns[1] \in Dirs
              /\ ns[2] = nb
              /\ ns[3]
              /\ ns[5] = walk.hexit_last ]_vars

\* C24: within one edge walk every scan after the first rotates in the sense of the
\* first: the sense never flips and is never Unknown after a pivot.
C24_RotationSenseIsFixed ==
    [][ (pc = "walk_while" /\ walk.rot # "Unknown") =>
            /\ walk'.rot = walk.rot
            /\ pc' = "walk_for" => walk'.rot \in { "Anticlock", "Clock" } ]_vars

(***************************************************************************)
(* The path of an edge walk                                                *)
(***************************************************************************)
\* c1 and c2 are the two ends of one side of a hexagon.
SideEnds(c1, c2) ==
    << c2[1] - c1[1], c2[2] - c1[2] >> \in
        { <<1, 1>>, <<1, -1>>, <<-1, 1>>, <<-1, -1>>, <<0, 2>>, <<0, -2>> }

\* The side with ends c1 and c2 lies between a cell of identity a and one of identity b.
Separates(c1, c2, a, b) ==
    \E k \in Hexes : \E d \in Dirs :
        /\ has_neighbour(k, d)
        /\ f[k] = a
        /\ f[get_neighbour(k, d)] = b
        /\ { c1, c2 } = { get_vertex_coord(k, d), get_vertex_coord(k, Pred6(d)) }

\* C25: the path of a walk that returned holds the corners traversed, in geometric
\* order: consecutive coordinates are the ends of one hexagon side, that side lies
\* between a cell of identity A and one of identity B, no corner occurs twice, and the
\* path runs from the start vertex (or the corner next to it) to the coordinate returned.
C25_PathInGeometricOrder ==
    (pc = "walked" /\ Len(pd.v.pathto_next) < MaxPath) =>
        LET path == pd.v.pathto_next
        IN  /\ path # << >>
            /\ path[1] = pd.v.v \/ SideEnds(pd.v.v, path[1])
            /\ path[Len(path)] = pd.next_vtx
            /\ \A n \in 1..(Len(path) - 1) :
                  /\ SideEnds(path[n], path[n + 1])
                  /\ Separates(path[n], path[n + 1], pd.v.f, pd.v.neighb[1])
            /\ \A n, m \in 1..Len(path) : n # m => path[n] # path[m]

(***************************************************************************)
(* The initial direction of the edge                                       *)
(***************************************************************************)
\* The corners of hexit_first at the coordinate the pass of the while loop starts from.
SeedCorners == { i \in Dirs : compare_vertex_coord(walk.hexit_first, i, walk.v_init) }

\* The neighbour of hexit_first in direction d exists and carries identity A.
FlankIsA(d) ==
    /\ has_neighbour(walk.hexit_first, d)
    /\ f[get_neighbour(walk.hexit_first, d)] = walk.edgedoms[1]

\* A pass of the while loop starts at a corner neither of whose flanking neighbours
\* carries identity A.
NeitherFlankIsA ==
    /\ pc = "walk_while"
    /\ \E i \in SeedCorners : ~FlankIsA(Succ6(i)) /\ ~FlankIsA(Pred6(i))

C27_UnsetDirectionRaisesError ==
    [][ (pc = "walk_while" /\ FirstDirn(f, walk)[1] \notin Dirs) => pc' = runtime_error ]_vars

(***************************************************************************)
(* The recursion of process_domain                                         *)
(***************************************************************************)
\* The candidates that carry identity id.
CandidatesOf(id) == { k \in 1..Len(vertices) : vertices[k].f = id }

\* The candidates that are closed.
ClosedCandidates == { k \in 1..Len(vertices) : vertices[k].closed }

KeySet(D) == { Key(D[n]) : n \in 1..Len(D) }

\* C29: in the collection dirichlet_vertices builds no vertex occurs twice within a
\* domain and no vertex occurs in two domains, so no closed domain is emitted twice,
\* whichever of its vertices come first in the candidate list.
C29_DomainsAreDisjoint ==
    /\ \A i \in 1..Len(dirich_domains) :
          /\ dirich_domains[i] # << >>
          /\ \A n, m \in 1..Len(dirich_domains[i]) :
                n # m => Key(dirich_domains[i][n]) # Key(dirich_domains[i][m])
    /\ \A i, k \in 1..Len(dirich_domains) :
          i # k => KeySet(dirich_domains[i]) \cap KeySet(dirich_domains[k]) = {}

\* dirichlet_vertices has returned a domain and had, after closing it, started another
\* attempt from a later vertex of that domain.
C29_ReattemptedFromLaterVertex ==
    /\ Done
    /\ dirich_domains # << >>
    /\ \E n \in 2..Len(submitted) :
          /\ Key(vertices[submitted[n]]) \in KeySet(dirich_domains[1])
          /\ Key(vertices[submitted[n]]) # Key(dirich_domains[1][1])
          /\ Key(vertices[submitted[1]]) = Key(dirich_domains[1][1])

(***************************************************************************)
(* What walk_common returns                                                *)
(***************************************************************************)
\* C30: when walk_common has returned normally, the path holds at least one coordinate,
\* the coordinate returned is the last one of the path, and it is not the unset
\* coordinate.
C30_ReturnsLastAppended ==
    pc = "walked" =>
        /\ pd.next_vtx = walk.next_one
        /\ pd.next_vtx # UnsetCoord
        /\ pd.next_vtx[1] # FLT_MAX /\ pd.next_vtx[2] # FLT_MAX
        /\ pd.v.pathto_next # << >>
        /\ Len(pd.v.pathto_next) < MaxPath
              => pd.v.pathto_next[Len(pd.v.pathto_next)] = pd.next_vtx

\* A walk has returned after a pivot that pushed no coordinate and a path of three
\* coordinates or more.
C30_ReturnedAfterPivot ==
    /\ pc = "walked"
    /\ Len(pd.v.pathto_next) \in 3..(MaxPath - 1)
    /\ walk.hexit_first # pd.v.hi
    /\ f[walk.hexit_first] = walk.edgedoms[1]

====
